---------------------------- MODULE Spec2Model ----------------------------
(***************************************************************************)
(* Model of fairseq2_011/models/transformer/frontend.py:                   *)
(* TransformerFrontend and TransformerEmbeddingFrontend.                   *)
(*                                                                         *)
(* Representation.                                                         *)
(*  - Optional[T] is a sequence of length <= 1: None is << >>, a present   *)
(*    value x is <<x>>.                                                    *)
(*  - A float that the front-end computes itself is an exact radical:      *)
(*    [rad |-> n] stands for the number sqrt(n), so 1.0 is [rad |-> 1],    *)
(*    sqrt(a) * sqrt(b) is [rad |-> a * b] and sqrt(n) = 1.0 iff n = 1.    *)
(*  - A tensor of embeddings is [data, rad, hist]: `data` holds integer    *)
(*    coefficients indexed (batch, position, feature), every element is    *)
(*    data[i][j][k] * sqrt(rad), and `hist` is the sequence of operations  *)
(*    applied afterwards that the front-end delegates or that no longer    *)
(*    commute with what was applied before (position encoder, layer norm,  *)
(*    dropout, or a multiplication of an already transformed tensor).      *)
(*    The delegated modules are uninterpreted: two tensors are equal iff   *)
(*    the same operations were applied, in the same order, with the same   *)
(*    arguments, to the same numbers.                                      *)
(*  - device / dtype are handed verbatim to the layer-norm factory and are *)
(*    not modelled.                                                        *)
(***************************************************************************)
EXTENDS Integers, Sequences, FiniteSets, TLC

(***************************************************************************)
(* Bounds of the model.                                                    *)
(***************************************************************************)
MaxDim == 2

MaxSeqLen == 2

VocabSize == 2

MaxStep == 1

None == << >>

Some(x) == <<x>>

(***************************************************************************)
(* Floats computed by the front-end.                                       *)
(***************************************************************************)
One == [rad |-> 1]

Sqrt(n) == [rad |-> n]

(***************************************************************************)
(* Collaborators defined outside frontend.py.                              *)
(***************************************************************************)
Weight(token, k, dim) == token * dim + k

Embed(embed, seqs) ==
    [data |-> [i \in DOMAIN seqs |->
                 [j \in DOMAIN seqs[i] |->
                    [k \in 1..embed.embedding_dim |->
                       Weight(seqs[i][j], k, embed.embedding_dim)]]],
     rad  |-> 1,
     hist |-> << >>]

HistOp(op, param, padding_mask, state_bag) ==
    [op |-> op, param |-> param,
     padding_mask |-> padding_mask, state_bag |-> state_bag]

Mul(t, s) ==
    IF t.hist = << >>
    THEN [t EXCEPT !.rad = @ * s.rad]
    ELSE [t EXCEPT !.hist = Append(@, HistOp("mul", s.rad, None, None))]

\* elide: whether the implementation returns no mask when every length
\* equals the sequence dimension (the spec leaves both outcomes open).
to_padding_mask(seqs, seq_lens, elide) ==
    IF seq_lens = None THEN None
    ELSE LET batch_size   == Len(seqs.data)
             mask_seq_len == Len(seqs.data[1])
             lens         == seq_lens[1]
         IN IF elide /\ \A i \in 1..batch_size : lens[i] = mask_seq_len
            THEN None
            ELSE Some([i \in 1..batch_size |->
                         [j \in 1..mask_seq_len |-> (j - 1) >= lens[i]]])

PositionEncoder_call(pos_encoder, embeds, padding_mask, state_bag) ==
    [embeds EXCEPT !.hist =
        Append(@, HistOp("pos_encoder", pos_encoder.encoding_dim,
                         padding_mask, state_bag))]

\* The position encoder may consult or update the incremental state.
PositionEncoder_bag(state_bag, update) ==
    IF state_bag # None /\ update THEN Some(state_bag[1] + 1) ELSE state_bag

LayerNorm_call(layer_norm, embeds) ==
    [embeds EXCEPT !.hist =
        Append(@, HistOp("layer_norm", layer_norm.dim, None, None))]

Dropout_call(dropout, embeds) ==
    [embeds EXCEPT !.hist =
        Append(@, HistOp("dropout", dropout.p, None, None))]

create_default_layer_norm(model_dim) ==
    [factory |-> "create_default_layer_norm", dim |-> model_dim]

custom_layer_norm(model_dim) ==
    [factory |-> "custom", dim |-> model_dim]

LayerNormFactory_call(layer_norm_fn, model_dim) ==
    IF layer_norm_fn = "create_default_layer_norm"
    THEN create_default_layer_norm(model_dim)
    ELSE custom_layer_norm(model_dim)

Dropout(p) == [p |-> p]

(***************************************************************************)
(* TransformerFrontend                                                     *)
(***************************************************************************)
TransformerFrontend_init(model_dim) == [model_dim |-> model_dim]

TransformerFrontend_extra_repr(self) ==
    "model_dim=" \o ToString(self.model_dim)

(***************************************************************************)
(* TransformerEmbeddingFrontend.__init__                                   *)
(* The result is [error, self]: error is the raised exception, if any.     *)
(***************************************************************************)
\* The message of the ValueError, without the backquotes around the names.
MismatchMessage(encoding_dim, model_dim) ==
    "encoding_dim of pos_encoder and embedding_dim of embed must be equal, but are "
        \o ToString(encoding_dim) \o " and " \o ToString(model_dim) \o " instead."

dims_differ_only_larger(pos_encoder, model_dim) ==
    pos_encoder # None /\ pos_encoder[1].encoding_dim > model_dim

dims_differ(pos_encoder, model_dim) ==
    pos_encoder # None /\ pos_encoder[1].encoding_dim # model_dim

init_scale_ignoring_flag(no_scale, model_dim) ==
    Sqrt(model_dim)

init_scale_by_dim(no_scale, model_dim) ==
    IF no_scale THEN One ELSE Sqrt(model_dim * model_dim)

init_scale(no_scale, model_dim) ==
    IF no_scale THEN One ELSE Sqrt(model_dim)

init_layer_norm(layer_norm, layer_norm_fn, model_dim) ==
    LET fn == IF layer_norm_fn = None
              THEN "create_default_layer_norm"
              ELSE layer_norm_fn[1]
    IN IF layer_norm THEN Some(LayerNormFactory_call(fn, model_dim)) ELSE None

init_dropout_nonnegative(dropout_p) ==
    IF dropout_p >= 0 THEN Some(Dropout(dropout_p)) ELSE None

init_dropout(dropout_p) ==
    IF dropout_p > 0 THEN Some(Dropout(dropout_p)) ELSE None

TransformerEmbeddingFrontend_init(a) ==
    LET model_dim == a.embed.embedding_dim
        base      == TransformerFrontend_init(model_dim)
    IN IF dims_differ(a.pos_encoder, model_dim)
       THEN [error |-> Some([type |-> "ValueError",
                             msg  |-> MismatchMessage(
                                          a.pos_encoder[1].encoding_dim,
                                          model_dim)]),
             self  |-> None]
       ELSE [error |-> None,
             self  |-> Some(
                [model_dim   |-> base.model_dim,
                 embed       |-> a.embed,
                 scale       |-> init_scale(a.no_scale, model_dim),
                 pos_encoder |-> a.pos_encoder,
                 layer_norm  |-> init_layer_norm(a.layer_norm, a.layer_norm_fn,
                                                 model_dim),
                 dropout     |-> init_dropout(a.dropout_p)])]

(***************************************************************************)
(* TransformerEmbeddingFrontend.forward                                    *)
(* ext holds the outcomes the delegated modules decide: ext.elide for      *)
(* to_padding_mask, ext.update for the position encoder and the bag.       *)
(* The result carries the returned pair, the front-end and the state bag   *)
(* as the call leaves them, and the trace of the steps that ran: for each  *)
(* step the arguments it was handed and the embeddings before and after.   *)
(***************************************************************************)
Step(step, passed, inp, out) ==
    [step |-> step, passed |-> passed, inp |-> inp, out |-> out]

forward_padding_mask_all_valid(embeds, seq_lens, ext) ==
    IF seq_lens = None
    THEN Some([i \in DOMAIN embeds.data |->
                 [j \in DOMAIN embeds.data[i] |-> FALSE]])
    ELSE to_padding_mask(embeds, seq_lens, ext.elide)

forward_padding_mask_without_lens(embeds, seq_lens, ext) ==
    to_padding_mask(embeds, None, ext.elide)

forward_padding_mask(embeds, seq_lens, ext) ==
    to_padding_mask(embeds, seq_lens, ext.elide)

forward_scale(self, embeds) ==
    IF self.scale # One THEN Mul(embeds, self.scale) ELSE embeds

forward_pos_encoder(self, embeds, padding_mask, state_bag) ==
    IF self.pos_encoder # None
    THEN PositionEncoder_call(self.pos_encoder[1], embeds, padding_mask,
                              state_bag)
    ELSE embeds

forward_layer_norm_unguarded(self, embeds) ==
    LayerNorm_call(IF self.layer_norm # None
                   THEN self.layer_norm[1]
                   ELSE create_default_layer_norm(self.model_dim),
                   embeds)

forward_layer_norm(self, embeds) ==
    IF self.layer_norm # None
    THEN LayerNorm_call(self.layer_norm[1], embeds)
    ELSE embeds

forward_dropout(self, embeds) ==
    IF self.dropout # None
    THEN Dropout_call(self.dropout[1], embeds)
    ELSE embeds

\* forward with the position encoder applied before the scaling.
forward_scale_after_pos_encoder(self, seqs, seq_lens, state_bag, ext) ==
    LET e0 == Embed(self.embed, seqs)
        padding_mask == forward_padding_mask(e0, seq_lens, ext)
        e1 == forward_pos_encoder(self, e0, padding_mask, state_bag)
        e2 == forward_scale(self, e1)
        e3 == forward_layer_norm(self, e2)
        e4 == forward_dropout(self, e3)
    IN [embeds       |-> e4,
        padding_mask |-> padding_mask,
        self         |-> self,
        state_bag    |-> IF self.pos_encoder # None
                         THEN PositionEncoder_bag(state_bag, ext.update)
                         ELSE state_bag,
        trace        |->
            << Step("embed", {"seqs"}, None, e0),
               Step("to_padding_mask", {"embeds", "seq_lens"}, Some(e0), e0) >>
            \o (IF self.pos_encoder # None
                THEN << Step("pos_encoder",
                             {"embeds", "padding_mask", "state_bag"},
                             Some(e0), e1) >>
                ELSE << >>)
            \o (IF self.scale # One
                THEN << Step("scale", {"embeds", "scale"}, Some(e1), e2) >>
                ELSE << >>)
            \o (IF self.layer_norm # None
                THEN << Step("layer_norm", {"embeds"}, Some(e2), e3) >>
                ELSE << >>)
            \o (IF self.dropout # None
                THEN << Step("dropout", {"embeds"}, Some(e3), e4) >>
                ELSE << >>)]

\* forward that hands the state bag to the layer normalization as well and
\* stores the scale it used back into the front-end.
forward_sharing_state(self, seqs, seq_lens, state_bag, ext) ==
    LET e0 == Embed(self.embed, seqs)
        padding_mask == forward_padding_mask(e0, seq_lens, ext)
        e1 == forward_scale(self, e0)
        e2 == forward_pos_encoder(self, e1, padding_mask, state_bag)
        e3 == forward_layer_norm(self, e2)
        e4 == forward_dropout(self, e3)
    IN [embeds       |-> e4,
        padding_mask |-> padding_mask,
        self         |-> [self EXCEPT !.scale = One],
        state_bag    |-> IF self.pos_encoder # None \/ self.layer_norm # None
                         THEN PositionEncoder_bag(state_bag, ext.update)
                         ELSE state_bag,
        trace        |->
            << Step("embed", {"seqs"}, None, e0),
               Step("to_padding_mask", {"embeds", "seq_lens"}, Some(e0), e0) >>
            \o (IF self.scale # One
                THEN << Step("scale", {"embeds", "scale"}, Some(e0), e1) >>
                ELSE << >>)
            \o (IF self.pos_encoder # None
                THEN << Step("pos_encoder",
                             {"embeds", "padding_mask", "state_bag"},
                             Some(e1), e2) >>
                ELSE << >>)
            \o (IF self.layer_norm # None
                THEN << Step("layer_norm", {"embeds", "state_bag"},
                             Some(e2), e3) >>
                ELSE << >>)
            \o (IF self.dropout # None
                THEN << Step("dropout", {"embeds"}, Some(e3), e4) >>
                ELSE << >>)]

forward(self, seqs, seq_lens, state_bag, ext) ==
    LET e0 == Embed(self.embed, seqs)
        padding_mask == forward_padding_mask(e0, seq_lens, ext)
        e1 == forward_scale(self, e0)
        e2 == forward_pos_encoder(self, e1, padding_mask, state_bag)
        e3 == forward_layer_norm(self, e2)
        e4 == forward_dropout(self, e3)
    IN [embeds       |-> e4,
        padding_mask |-> padding_mask,
        self         |-> self,
        state_bag    |-> IF self.pos_encoder # None
                         THEN PositionEncoder_bag(state_bag, ext.update)
                         ELSE state_bag,
        trace        |->
            << Step("embed", {"seqs"}, None, e0),
               Step("to_padding_mask", {"embeds", "seq_lens"}, Some(e0), e0) >>
            \o (IF self.scale # One
                THEN << Step("scale", {"embeds", "scale"}, Some(e0), e1) >>
                ELSE << >>)
            \o (IF self.pos_encoder # None
                THEN << Step("pos_encoder",
                             {"embeds", "padding_mask", "state_bag"},
                             Some(e1), e2) >>
                ELSE << >>)
            \o (IF self.layer_norm # None
                THEN << Step("layer_norm", {"embeds"}, Some(e2), e3) >>
                ELSE << >>)
            \o (IF self.dropout # None
                THEN << Step("dropout", {"embeds"}, Some(e3), e4) >>
                ELSE << >>)]

(***************************************************************************)
(* TransformerEmbeddingFrontend.extra_repr                                 *)
(* Python parses `s + x if c else ""` as `(s + x) if c else ""`.           *)
(***************************************************************************)
extra_repr(self) ==
    LET s == TransformerFrontend_extra_repr(self)
    IN IF self.scale # One THEN s \o ", no_scale=False" ELSE ""

(***************************************************************************)
(* Inputs.                                                                 *)
(***************************************************************************)
Dims == 1..MaxDim

\* dropout_p in tenths: -0.1, 0.0 and 0.1 (the default)
DropoutPs == {-1, 0, 1}

CtorArgs ==
    [embed         : [embedding_dim : Dims],
     pos_encoder   : {None} \cup {Some([encoding_dim |-> d]) : d \in Dims},
     no_scale      : BOOLEAN,
     layer_norm    : BOOLEAN,
     dropout_p     : DropoutPs,
     layer_norm_fn : {None, Some("custom")}]

Tokens == 0..(VocabSize - 1)

\* Every batch has two sequences, so that two lengths can differ.
Batch == {1, 2}

SeqsInputs ==
    {[i \in Batch |-> [j \in 1..MaxSeqLen |-> (a + i * j) % VocabSize]] :
        a \in Tokens}

SeqLensInputs == {None} \cup {Some(l) : l \in [Batch -> 0..MaxSeqLen]}

StateBags == {None} \cup {Some(n) : n \in 0..MaxStep}

Exts == [elide : BOOLEAN, update : BOOLEAN]

(***************************************************************************)
(* State.                                                                  *)
(***************************************************************************)
VARIABLES
    status,   \* "new", "ready" (constructed) or "failed" (__init__ raised)
    args,     \* Optional: the arguments __init__ was called with
    obj,      \* Optional: the constructed front-end
    error,    \* Optional: the exception __init__ raised
    call,     \* Optional: the last forward call, its inputs and results
    repr      \* Optional: the result of the last extra_repr call

vars == <<status, args, obj, error, call, repr>>

Init ==
    /\ status = "new"
    /\ args = None
    /\ obj = None
    /\ error = None
    /\ call = None
    /\ repr = None

Construct(a) ==
    /\ status = "new"
    /\ LET r == TransformerEmbeddingFrontend_init(a)
       IN /\ status' = IF r.error = None THEN "ready" ELSE "failed"
          /\ obj' = r.self
          /\ error' = r.error
    /\ args' = Some(a)
    /\ UNCHANGED <<call, repr>>

Forward(seqs, seq_lens, state_bag, ext) ==
    /\ status = "ready"
    /\ call = None
    /\ LET r == forward(obj[1], seqs, seq_lens, state_bag, ext)
       IN /\ obj' = Some(r.self)
          /\ call' = Some([seqs          |-> seqs,
                           seq_lens      |-> seq_lens,
                           state_bag     |-> state_bag,
                           embeds        |-> r.embeds,
                           padding_mask  |-> r.padding_mask,
                           state_bag_out |-> r.state_bag,
                           trace         |-> r.trace])
    /\ UNCHANGED <<status, args, error, repr>>

\* The caller drops the pair forward returned; the front-end is then called
\* again.
Discard ==
    /\ call # None
    /\ call' = None
    /\ UNCHANGED <<status, args, obj, error, repr>>

ExtraRepr ==
    /\ status = "ready"
    /\ repr' = Some(extra_repr(obj[1]))
    /\ UNCHANGED <<status, args, obj, error, call>>

Next ==
    \/ \E a \in CtorArgs : Construct(a)
    \/ \E seqs \in SeqsInputs, seq_lens \in SeqLensInputs,
          state_bag \in StateBags, ext \in Exts :
           Forward(seqs, seq_lens, state_bag, ext)
    \/ Discard
    \/ ExtraRepr

Spec == Init /\ [][Next]_vars


(***************************************************************************)
(* Properties.                                                             *)
(***************************************************************************)
\* The sequence dimensions of the last call's input.
CallBatch == Len(call[1].seqs)

CallSeqLen == Len(call[1].seqs[1])

StepNames(trace) == {trace[k].step : k \in 1..Len(trace)}

TrivialArgs ==
    /\ args[1].pos_encoder = None
    /\ ~args[1].layer_norm
    /\ args[1].dropout_p = 0

Order ==
    <<"embed", "to_padding_mask", "scale", "pos_encoder", "layer_norm", "dropout">>

Rank(step) == CHOOSE n \in 1..Len(Order) : Order[n] = step

ConfiguredSteps(self) ==
    {"embed", "to_padding_mask"}
        \cup (IF self.scale # One THEN {"scale"} ELSE {})
        \cup (IF self.pos_encoder # None THEN {"pos_encoder"} ELSE {})
        \cup (IF self.layer_norm # None THEN {"layer_norm"} ELSE {})
        \cup (IF self.dropout # None THEN {"dropout"} ELSE {})

C2_StepsInFixedOrder ==
    call # None =>
        LET t == call[1].trace
            h == call[1].embeds.hist
        IN /\ StepNames(t) = ConfiguredSteps(obj[1])
           /\ \A k \in 1..(Len(t) - 1) : Rank(t[k].step) < Rank(t[k + 1].step)
           /\ t[1].inp = None
           /\ \A k \in 2..Len(t) : t[k].inp = Some(t[k - 1].out)
           /\ call[1].embeds = t[Len(t)].out
           /\ \A k \in 1..Len(h) : h[k].op \in ConfiguredSteps(obj[1])
           /\ \A k \in 1..(Len(h) - 1) : Rank(h[k].op) < Rank(h[k + 1].op)

C2_Witness ==
    /\ call # None
    /\ Len(call[1].trace) = Len(Order)
    /\ Len(call[1].embeds.hist) > 2

\* C3: with no_scale=True, pos_encoder=None, layer_norm=False and
\* dropout_p=0.0, forward returns exactly the raw embedding lookup
\* embed(seqs), whatever seqs and seq_lens are.
C3_NoScaleReturnsRawLookup ==
    (call # None /\ TrivialArgs /\ args[1].no_scale) =>
        call[1].embeds =
            [data |-> [i \in 1..CallBatch |->
                         [j \in 1..CallSeqLen |->
                            [k \in 1..args[1].embed.embedding_dim |->
                               Weight(call[1].seqs[i][j], k,
                                      args[1].embed.embedding_dim)]]],
             rad  |-> 1,
             hist |-> << >>]

C3_Witness ==
    /\ call # None
    /\ TrivialArgs
    /\ args[1].no_scale
    /\ args[1].embed.embedding_dim > 1
    /\ call[1].seq_lens # None

\* C4: with no_scale=False, pos_encoder=None, layer_norm=False and
\* dropout_p=0.0, forward returns the raw lookup multiplied elementwise by
\* sqrt(model_dim), also when model_dim = 1 and the multiplication is
\* skipped; the scale is set by the constructor and is the same in every
\* later state.
C4_ScaledBySqrtModelDim ==
    /\ status = "ready" =>
          obj[1].scale = IF args[1].no_scale
                         THEN [rad |-> 1]
                         ELSE [rad |-> args[1].embed.embedding_dim]
    /\ (call # None /\ TrivialArgs /\ ~args[1].no_scale) =>
          LET raw == Embed(args[1].embed, call[1].seqs)
          IN /\ call[1].embeds.data = raw.data
             /\ call[1].embeds.rad = raw.rad * args[1].embed.embedding_dim
             /\ call[1].embeds.hist = << >>

C4_Witness ==
    /\ call # None
    /\ TrivialArgs
    /\ ~args[1].no_scale
    /\ args[1].embed.embedding_dim = 1
    /\ "scale" \notin StepNames(call[1].trace)

\* C5: when seq_lens is None the returned padding mask is None, not a mask
\* of valid positions, in every configuration; and the position encoder, if
\* configured, is then called with padding_mask None.
C5_NoSeqLensNoMask ==
    (call # None /\ call[1].seq_lens = None) =>
        /\ call[1].padding_mask = None
        /\ \A k \in 1..Len(call[1].embeds.hist) :
              call[1].embeds.hist[k].op = "pos_encoder" =>
                  call[1].embeds.hist[k].padding_mask = None

C5_Witness ==
    /\ call # None
    /\ call[1].seq_lens = None
    /\ obj[1].pos_encoder # None
    /\ "pos_encoder" \in StepNames(call[1].trace)

\* C6: when seq_lens gives at least one length shorter than the sequence
\* dimension, the returned mask has shape (batch, seq_len) and marks exactly
\* the positions j >= seq_lens[i]; it is a function of the shape and of
\* seq_lens alone.
C6_MaskMarksExactlyPadding ==
    (/\ call # None
     /\ call[1].seq_lens # None
     /\ \E i \in 1..CallBatch : call[1].seq_lens[1][i] < CallSeqLen) =>
        /\ call[1].padding_mask # None
        /\ DOMAIN call[1].padding_mask[1] = 1..CallBatch
        /\ \A i \in 1..CallBatch :
              /\ DOMAIN call[1].padding_mask[1][i] = 1..CallSeqLen
              /\ \A j \in 1..CallSeqLen :
                    call[1].padding_mask[1][i][j]
                        <=> (j - 1 >= call[1].seq_lens[1][i])

C6_Witness ==
    /\ call # None
    /\ call[1].seq_lens # None
    /\ call[1].seq_lens[1][1] < CallSeqLen
    /\ call[1].seq_lens[1][2] = CallSeqLen
    /\ call[1].padding_mask # None
    /\ obj[1].pos_encoder # None
    /\ obj[1].dropout # None

\* C7: a constructed front-end has pos_encoder iff one was supplied,
\* layer_norm iff the flag was true (built by layer_norm_fn, or by the default
\* factory when that is None, for model_dim), dropout iff dropout_p > 0; and
\* in every forward call a present module is applied and an absent one is not.
Applied(name) ==
    /\ name \in StepNames(call[1].trace)
    /\ \E k \in 1..Len(call[1].embeds.hist) : call[1].embeds.hist[k].op = name

NotApplied(name) ==
    /\ name \notin StepNames(call[1].trace)
    /\ \A k \in 1..Len(call[1].embeds.hist) : call[1].embeds.hist[k].op # name

C7_OptionalModulesAllOrNothing ==
    status = "ready" =>
        LET a == args[1]
            self == obj[1]
        IN /\ self.pos_encoder = a.pos_encoder
           /\ self.layer_norm =
                 IF a.layer_norm
                 THEN Some([factory |-> IF a.layer_norm_fn = None
                                        THEN "create_default_layer_norm"
                                        ELSE a.layer_norm_fn[1],
                            dim     |-> a.embed.embedding_dim])
                 ELSE None
           /\ self.dropout = IF a.dropout_p > 0
                             THEN Some([p |-> a.dropout_p])
                             ELSE None
           /\ call # None =>
                 /\ IF a.pos_encoder # None
                    THEN Applied("pos_encoder") ELSE NotApplied("pos_encoder")
                 /\ IF a.layer_norm
                    THEN Applied("layer_norm") ELSE NotApplied("layer_norm")
                 /\ IF a.dropout_p > 0
                    THEN Applied("dropout") ELSE NotApplied("dropout")

C7_Witness ==
    /\ call # None
    /\ args[1].dropout_p < 0
    /\ args[1].layer_norm
    /\ args[1].layer_norm_fn = None
    /\ args[1].pos_encoder = None

\* C8: a front-end built with layer_norm=False and dropout_p=0.0 returns, for
\* every input, pos_encoder and no_scale, what a front-end returns that
\* differs only in applying a normalization and a dropout that are the
\* identity: an omitted module passes the tensor through unchanged.
Identity(x) == x

WithIdentityModules(self, seqs, padding_mask, state_bag) ==
    LET e0 == Embed(self.embed, seqs)
        e1 == IF self.scale # One THEN Mul(e0, self.scale) ELSE e0
        e2 == IF self.pos_encoder # None
              THEN PositionEncoder_call(self.pos_encoder[1], e1, padding_mask,
                                        state_bag)
              ELSE e1
        e3 == Identity(e2)
        e4 == Identity(e3)
    IN e4

C8_OmittedModulesAreNoOps ==
    (call # None /\ ~args[1].layer_norm /\ args[1].dropout_p = 0) =>
        /\ call[1].padding_mask \in
              {to_padding_mask(Embed(obj[1].embed, call[1].seqs),
                               call[1].seq_lens, elide) : elide \in BOOLEAN}
        /\ call[1].embeds =
              WithIdentityModules(obj[1], call[1].seqs, call[1].padding_mask,
                                  call[1].state_bag)

C8_Witness ==
    /\ call # None
    /\ ~args[1].layer_norm
    /\ args[1].dropout_p = 0
    /\ args[1].pos_encoder # None
    /\ ~args[1].no_scale
    /\ args[1].embed.embedding_dim > 1

\* C9: forward leaves the front-end as it was (model_dim, scale and the
\* presence of pos_encoder, layer_norm and dropout), only the position
\* encoder is handed the state_bag, and without a position encoder the
\* state_bag is the same after the call as before it.
BagOnlyToPosEncoder ==
    call # None =>
        /\ \A k \in 1..Len(call[1].trace) :
              "state_bag" \in call[1].trace[k].passed
                  => call[1].trace[k].step = "pos_encoder"
        /\ obj[1].pos_encoder = None
              => call[1].state_bag_out = call[1].state_bag

C9_ForwardLeavesFrontendUnchanged ==
    /\ [](BagOnlyToPosEncoder)
    /\ [][status = "ready" => obj' = obj]_vars

C9_Witness ==
    /\ call # None
    /\ obj[1].pos_encoder = None
    /\ obj[1].layer_norm # None
    /\ call[1].state_bag # None
    /\ repr # None

\* C10: extra_repr returns the base class's "model_dim=<model_dim>" and
\* appends ", no_scale=False" only when scaling is applied; with no_scale=True
\* the result is exactly "model_dim=<model_dim>".
C10_ExtraReprKeepsBase ==
    repr # None =>
        repr[1] = "model_dim=" \o ToString(obj[1].model_dim)
                  \o (IF obj[1].scale # One THEN ", no_scale=False" ELSE "")

=============================================================================
